---- MODULE Spec2Model ----
(***************************************************************************)
(* Model of the CreoleCentric API examples: the webhook server             *)
(* (examples/webhook_server.js), the polling script                        *)
(* (examples/tts_job_with_polling.sh) and the Node client's waitForJob     *)
(* (nodejs/creolecentric-api.js).                                          *)
(***************************************************************************)
EXTENDS Integers, Sequences, FiniteSets, TLC

(***************************************************************************)
(* Bounds of the model.                                                    *)
(***************************************************************************)
\* webhooks delivered to the server in one run
MaxEvents == 2

(***************************************************************************)
(* JavaScript values.  A field that is absent from a JSON body reads as    *)
(* undefined; undefined and the empty string are falsy.                    *)
(***************************************************************************)
Undefined == "undefined"

Truthy(v) == v \notin {Undefined, ""}

\* a || b
Or(a, b) == IF Truthy(a) THEN a ELSE b

Last(s) == s[Len(s)]

(***************************************************************************)
(* Webhook bodies.  NoData stands for a request whose body parsed to a     *)
(* falsy req.body.                                                         *)
(***************************************************************************)
NoData == [event |-> "<no body>", job_id |-> "<no body>",
           status |-> "<no body>", audio_file_url |-> "<no body>"]

EventTypes == {"tts_queued", "tts_started", "tts_synthesized",
               "tts_uploaded", "tts_delivered", "tts_failed"}

EventValues == EventTypes \cup {"tts_archived", Undefined}

JobIdValues == {"J1", Undefined}

StatusValues == {"completed", Undefined}

UrlValues == {"https://x/a.mp3", Undefined}

Payloads == [event : EventValues, job_id : JobIdValues,
             status : StatusValues, audio_file_url : UrlValues]

VARIABLES
    \* examples/webhook_server.js
    webhookEvents,   \* the server's stored events, in arrival order
    responses,       \* HTTP responses of POST /webhook, in order
    handlerCalls,    \* handler invocations, in order
    downloads,       \* downloadAudio invocations of the server, in order
    lastRead,        \* the body of the server's latest GET response
    \* examples/tts_job_with_polling.sh
    hasJq,           \* whether `command -v jq` succeeds
    pollPc,          \* "loop", "after" (behind the loop) or "exited"
    ATTEMPT,
    STATUS,
    AUDIO_URL,
    ERROR_MESSAGE,
    pollQueries,     \* status queries issued
    pollTerminal,    \* the first terminal status a query returned, or "none"
    pollDownloads,   \* curl -o invocations
    pollOutcome,     \* the final message
    pollErrorShown,  \* the text of the "  Error: ..." line, "" if none was printed
    exitCode,        \* exit status, -1 while running
    \* examples/check_job_status.sh
    checkPc,         \* "start" or "exited"
    checkSTATUS,
    checkBranch,     \* the branch of the if chain the script took
    checkAUDIO_URL,  \* the URL of the printed download command, "" if none
    checkExit,       \* exit status, -1 before the run
    \* nodejs/creolecentric-api.js, waitForJob
    wfPc,            \* "idle", "test", "querying", "sleeping", "resolved", "rejected"
    wfNow,           \* Date.now(), in ms
    startTime,
    timeoutMs,
    pollIntervalMs,
    wfPolls,         \* the status objects getJobStatus returned, in order
    wfQueries,       \* status queries issued
    wfResult,        \* the value waitForJob resolved with
    wfError,         \* the error waitForJob rejected with
    wfRequests,      \* the HTTP requests the client has sent
    wfEarlier,       \* how the earlier waitForJob calls ended, in order
    wfEventsAtStart  \* how many webhooks the server had stored when the call began

serverVars == <<webhookEvents, responses, handlerCalls, downloads, lastRead>>

checkVars == <<checkPc, checkSTATUS, checkBranch, checkAUDIO_URL, checkExit>>

pollVars == <<hasJq, pollPc, ATTEMPT, STATUS, AUDIO_URL, ERROR_MESSAGE,
              pollQueries, pollTerminal, pollDownloads, pollOutcome,
              pollErrorShown, exitCode, checkVars>>

waitVars == <<wfPc, wfNow, startTime, timeoutMs, pollIntervalMs, wfPolls,
              wfQueries, wfResult, wfError, wfRequests, wfEarlier,
              wfEventsAtStart>>

vars == <<serverVars, pollVars, waitVars>>

(***************************************************************************)
(* POST /webhook                                                           *)
(***************************************************************************)
\* the switch with its default case falling into the tts_delivered case
DispatchDefaultDelivered(eventType) ==
    CASE eventType = "tts_queued"      -> "handleQueued"
      [] eventType = "tts_started"     -> "handleStarted"
      [] eventType = "tts_synthesized" -> "handleSynthesized"
      [] eventType = "tts_uploaded"    -> "handleUploaded"
      [] eventType = "tts_failed"      -> "handleFailed"
      [] OTHER                         -> "handleDelivered"

\* the switch with the tts_started case calling the handler of tts_queued
DispatchStartedAsQueued(eventType) ==
    CASE eventType = "tts_queued"      -> "handleQueued"
      [] eventType = "tts_started"     -> "handleQueued"
      [] eventType = "tts_synthesized" -> "handleSynthesized"
      [] eventType = "tts_uploaded"    -> "handleUploaded"
      [] eventType = "tts_delivered"   -> "handleDelivered"
      [] eventType = "tts_failed"      -> "handleFailed"
      [] OTHER                         -> "none"

\* the switch on eventType
Dispatch(eventType) ==
    CASE eventType = "tts_queued"      -> "handleQueued"
      [] eventType = "tts_started"     -> "handleStarted"
      [] eventType = "tts_synthesized" -> "handleSynthesized"
      [] eventType = "tts_uploaded"    -> "handleUploaded"
      [] eventType = "tts_delivered"   -> "handleDelivered"
      [] eventType = "tts_failed"      -> "handleFailed"
      [] OTHER                         -> "none"

\* downloadAudio awaited to the end of the transfer before the handler returns
downloadAudioAwaited(jobId, audioUrl) ==
    [jobId |-> jobId, url |-> audioUrl, state |-> "saved", requests |-> 1]

\* downloadAudio up to its first await: the GET request has been issued
downloadAudio(jobId, audioUrl) ==
    [jobId |-> jobId, url |-> audioUrl, state |-> "requesting", requests |-> 1]

\* handleDelivered taking the URL from audio_file_url, audio_url or s3_url
handleDeliveredAnyUrl(data) ==
    LET audioUrl == Or(data.audio_file_url, Or(data.audio_url, data.s3_url))
    IN  IF Truthy(audioUrl) THEN <<downloadAudio(data.job_id, audioUrl)>>
        ELSE <<>>

\* the downloads one handler call starts
handleDelivered(data) ==
    IF Truthy(data.audio_file_url)
    THEN <<downloadAudio(data.job_id, data.audio_file_url)>>
    ELSE <<>>

HandlerDownloads(handler, data) ==
    IF handler = "handleDelivered" THEN handleDelivered(data) ELSE <<>>

\* the JSON success response
SuccessResponse(eventType, jobId) ==
    [code |-> 200, status |-> "success", event |-> eventType, job_id |-> jobId]

NoDataResponse ==
    [code |-> 400, status |-> "error", event |-> Undefined, job_id |-> Undefined]

\* the event stored only when no equal event is stored yet
StoreEventOnce(events, data) ==
    IF \E i \in 1..Len(events) : events[i] = data THEN events
    ELSE Append(events, data)

\* webhookEvents.push({...data, received_at})
StoreEvent(events, data) == Append(events, data)

\* app.post('/webhook') for one request
Receive(data) ==
    /\ IF data = NoData
       THEN /\ responses' = Append(responses, NoDataResponse)
            /\ UNCHANGED <<webhookEvents, handlerCalls, downloads>>
            /\ UNCHANGED <<lastRead, pollVars, waitVars>>
       ELSE LET eventType == Or(data.event, "unknown")
                jobId     == Or(data.job_id, "unknown")
                handler   == Dispatch(eventType)
            IN  /\ webhookEvents' = StoreEvent(webhookEvents, data)
                /\ handlerCalls' =
                     IF handler = "none" THEN handlerCalls
                     ELSE Append(handlerCalls,
                                 [handler |-> handler, job_id |-> data.job_id,
                                  at |-> Len(webhookEvents) + 1])
                /\ downloads' = downloads \o HandlerDownloads(handler, data)
                /\ responses' = Append(responses, SuccessResponse(eventType, jobId))
                /\ UNCHANGED <<lastRead, pollVars, waitVars>>

\* a request of a run that makes at most MaxEvents requests
Webhook(data) ==
    /\ Len(responses) < MaxEvents
    /\ Receive(data)

(***************************************************************************)
(* The GET endpoints                                                       *)
(***************************************************************************)
NoRead == [endpoint |-> "none"]

\* GET /events: res.json(webhookEvents)
GetEvents ==
    /\ lastRead' = [endpoint |-> "/events", body |-> webhookEvents]
    /\ UNCHANGED <<webhookEvents, responses, handlerCalls, downloads, pollVars,
                   waitVars>>

\* the home page lists this many events
RecentEvents == 10

\* events.slice(-n): a copy of the last n elements
SliceLast(events, n) ==
    IF Len(events) <= n THEN events
    ELSE SubSeq(events, Len(events) - n + 1, Len(events))

\* reverse(), applied to the copy
Reverse(events) == [i \in 1..Len(events) |-> events[Len(events) + 1 - i]]

\* GET /: the page lists the last ten events, newest first
GetIndex ==
    /\ lastRead' = [endpoint |-> "/",
                    body |-> Reverse(SliceLast(webhookEvents, RecentEvents))]
    /\ UNCHANGED <<webhookEvents, responses, handlerCalls, downloads, pollVars,
                   waitVars>>

\* GET /events/:jobId answering with every stored event
GetEventsByJobUnfiltered(jobId) ==
    /\ lastRead' = [endpoint |-> "/events/:jobId", body |-> webhookEvents]
    /\ UNCHANGED <<webhookEvents, responses, handlerCalls, downloads, pollVars,
                   waitVars>>

\* GET /events/:jobId: the stored events whose job_id is the parameter
GetEventsByJob(jobId) ==
    /\ lastRead' = [endpoint |-> "/events/:jobId",
                    body |-> SelectSeq(webhookEvents,
                                       LAMBDA e : e.job_id = jobId)]
    /\ UNCHANGED <<webhookEvents, responses, handlerCalls, downloads, pollVars,
                   waitVars>>

\* GET /health: events_received is webhookEvents.length
GetHealth ==
    /\ lastRead' = [endpoint |-> "/health", status |-> "healthy",
                    events_received |-> Len(webhookEvents)]
    /\ UNCHANGED <<webhookEvents, responses, handlerCalls, downloads, pollVars,
                   waitVars>>

(***************************************************************************)
(* downloadAudio after its first await                                     *)
(***************************************************************************)
\* axios resolved with a 2xx response: the file is opened and piped into
DownloadResponse(i) ==
    /\ i \in 1..Len(downloads)
    /\ downloads[i].state = "requesting"
    /\ downloads' = [downloads EXCEPT ![i].state = "streaming"]
    /\ UNCHANGED <<webhookEvents, responses, handlerCalls, lastRead, pollVars,
                   waitVars>>

\* axios rejected (network error, HTTP 404): the catch block logs it
DownloadRequestFailed(i) ==
    /\ i \in 1..Len(downloads)
    /\ downloads[i].state = "requesting"
    /\ downloads' = [downloads EXCEPT ![i].state = "failed"]
    /\ UNCHANGED <<webhookEvents, responses, handlerCalls, lastRead, pollVars,
                   waitVars>>

\* writer 'finish'
WriterFinish(i) ==
    /\ i \in 1..Len(downloads)
    /\ downloads[i].state = "streaming"
    /\ downloads' = [downloads EXCEPT ![i].state = "saved"]
    /\ UNCHANGED <<webhookEvents, responses, handlerCalls, lastRead, pollVars,
                   waitVars>>

\* writer 'error'
WriterError(i) ==
    /\ i \in 1..Len(downloads)
    /\ downloads[i].state = "streaming"
    /\ downloads' = [downloads EXCEPT ![i].state = "save_error"]
    /\ UNCHANGED <<webhookEvents, responses, handlerCalls, lastRead, pollVars,
                   waitVars>>

(***************************************************************************)
(* The polling script, tts_job_with_polling.sh: the loop over status       *)
(* queries and the lines behind it.                                        *)
(***************************************************************************)
MAX_ATTEMPTS == 30

\* the body of one status response; EmptyResponse is a failed curl (no
\* output) or a body that is not JSON
EmptyResponse == [status |-> "<empty>", audio_file_url |-> "<empty>",
                  audio_url |-> "<empty>"]

RemoteStatusValues == {"pending", "processing", "completed", "failed",
                       "cancelled", "synthesized", Undefined}

AudioUrlValues == {"https://x/b.mp3", Undefined}

StatusResponses == [status : RemoteStatusValues, audio_file_url : UrlValues,
                    audio_url : AudioUrlValues]

\* jq -r '.f': null prints as "null"; no output for a body jq cannot read
JqRaw(resp, f) ==
    IF resp = EmptyResponse THEN ""
    ELSE IF resp[f] = Undefined THEN "null" ELSE resp[f]

\* jq -r '.audio_file_url // .audio_url // ""'
JqAudioUrl(resp) ==
    IF resp = EmptyResponse THEN ""
    ELSE IF resp.audio_file_url # Undefined THEN resp.audio_file_url
    ELSE IF resp.audio_url # Undefined THEN resp.audio_url
    ELSE ""

\* grep -o '"f":"[^"]*' | sed 's/"f":"//'
GrepField(resp, f) ==
    IF resp = EmptyResponse THEN ""
    ELSE IF resp[f] = Undefined THEN "" ELSE resp[f]

\* STATUS as a script that gives up on an empty response would read it
ParseStatusEmptyFails(jq, resp) ==
    IF resp = EmptyResponse THEN "failed"
    ELSE IF jq THEN JqRaw(resp, "status") ELSE GrepField(resp, "status")

ParseStatus(jq, resp) ==
    IF jq THEN JqRaw(resp, "status") ELSE GrepField(resp, "status")

ParseAudioUrl(jq, resp) ==
    IF jq THEN JqAudioUrl(resp) ELSE GrepField(resp, "audio_file_url")

\* the .error_message of a status response
ErrorMessageValues == {"voice not found", Undefined}

\* jq -r '.error_message // ""', or the grep fallback
ParseErrorMessage(jq, msg) == IF msg = Undefined THEN "" ELSE msg

\* [[ -n "$AUDIO_URL" ]] && [[ "$AUDIO_URL" != "null" ]]
HasAudioUrl(url) == url # "" /\ url # "null"

TerminalStatuses == {"completed", "failed", "cancelled"}

\* the loop body without its cancelled branch
PollAttemptNoCancelled(resp) ==
    /\ pollPc = "loop"
    /\ ATTEMPT < MAX_ATTEMPTS
    /\ \E msg \in (IF resp = EmptyResponse THEN {Undefined}
                                            ELSE ErrorMessageValues) :
       LET status == ParseStatus(hasJq, resp)
           url    == ParseAudioUrl(hasJq, resp)
           error  == ParseErrorMessage(hasJq, msg)
       IN  /\ ATTEMPT' = ATTEMPT + 1
           /\ pollQueries' = pollQueries + 1
           /\ STATUS' = status
           /\ AUDIO_URL' = url
           /\ ERROR_MESSAGE' = error
           /\ pollTerminal' =
                IF pollTerminal = "none" /\ resp # EmptyResponse
                                         /\ resp.status \in TerminalStatuses
                THEN resp.status ELSE pollTerminal
           /\ IF status = "completed"
              THEN /\ pollDownloads' =
                        IF HasAudioUrl(url) THEN pollDownloads + 1
                        ELSE pollDownloads
                   /\ pollPc' = "after"
                   /\ UNCHANGED <<pollOutcome, pollErrorShown, exitCode>>
              ELSE IF status = "failed"
              THEN /\ pollPc' = "exited"
                   /\ pollOutcome' = "Job failed!"
                   /\ pollErrorShown' =
                        IF error # "" /\ error # "null" THEN error
                        ELSE pollErrorShown
                   /\ exitCode' = 1
                   /\ UNCHANGED pollDownloads
              ELSE /\ pollPc' = "loop"
                   /\ UNCHANGED <<pollDownloads, pollOutcome, pollErrorShown,
                                  exitCode>>
    /\ UNCHANGED <<hasJq, checkVars, serverVars, waitVars>>

\* one pass of the while loop: the query, the parse and the branches
PollAttempt(resp) ==
    /\ pollPc = "loop"
    /\ ATTEMPT < MAX_ATTEMPTS
    /\ \E msg \in (IF resp = EmptyResponse THEN {Undefined}
                                            ELSE ErrorMessageValues) :
       LET status == ParseStatus(hasJq, resp)
           url    == ParseAudioUrl(hasJq, resp)
           error  == ParseErrorMessage(hasJq, msg)
       IN  /\ ATTEMPT' = ATTEMPT + 1
           /\ pollQueries' = pollQueries + 1
           /\ STATUS' = status
           /\ AUDIO_URL' = url
           /\ ERROR_MESSAGE' = error
           /\ pollTerminal' =
                IF pollTerminal = "none" /\ resp # EmptyResponse
                                         /\ resp.status \in TerminalStatuses
                THEN resp.status ELSE pollTerminal
           /\ IF status = "completed"
              THEN /\ pollDownloads' =
                        IF HasAudioUrl(url) THEN pollDownloads + 1
                        ELSE pollDownloads
                   /\ pollPc' = "after"
                   /\ UNCHANGED <<pollOutcome, pollErrorShown, exitCode>>
              ELSE IF status = "failed"
              THEN /\ pollPc' = "exited"
                   /\ pollOutcome' = "Job failed!"
                   /\ pollErrorShown' =
                        IF error # "" /\ error # "null" THEN error
                        ELSE pollErrorShown
                   /\ exitCode' = 1
                   /\ UNCHANGED pollDownloads
              ELSE IF status = "cancelled"
              THEN /\ pollPc' = "exited"
                   /\ pollOutcome' = "Job was cancelled"
                   /\ exitCode' = 1
                   /\ UNCHANGED <<pollDownloads, pollErrorShown>>
              ELSE /\ pollPc' = "loop"
                   /\ UNCHANGED <<pollDownloads, pollOutcome, pollErrorShown,
                                  exitCode>>
    /\ UNCHANGED <<hasJq, checkVars, serverVars, waitVars>>

\* the loop condition fails: fall out of the loop
PollExhausted ==
    /\ pollPc = "loop"
    /\ ~(ATTEMPT < MAX_ATTEMPTS)
    /\ pollPc' = "after"
    /\ UNCHANGED <<hasJq, ATTEMPT, STATUS, AUDIO_URL, ERROR_MESSAGE, pollQueries,
                   pollTerminal, pollDownloads, pollOutcome, pollErrorShown,
                   exitCode, checkVars, serverVars, waitVars>>

\* the lines behind the loop
PollFinish ==
    /\ pollPc = "after"
    /\ pollPc' = "exited"
    /\ IF ATTEMPT = MAX_ATTEMPTS
       THEN /\ pollOutcome' = "Timeout: Job did not complete within expected time"
            /\ exitCode' = 1
       ELSE /\ pollOutcome' = "Example completed successfully!"
            /\ exitCode' = 0
    /\ UNCHANGED <<hasJq, ATTEMPT, STATUS, AUDIO_URL, ERROR_MESSAGE, pollQueries,
                   pollTerminal, pollDownloads, pollErrorShown, checkVars,
                   serverVars, waitVars>>

(***************************************************************************)
(* examples/check_job_status.sh                                            *)
(***************************************************************************)
\* jq -r '.status // "unknown"'
CheckParseStatus(resp) ==
    IF resp = EmptyResponse THEN ""
    ELSE IF resp.status = Undefined THEN "unknown" ELSE resp.status

\* the if / elif chain on $STATUS
CheckBranch(status) ==
    IF status = "completed" THEN "completed"
    ELSE IF status = "pending" \/ status = "processing" THEN "in progress"
    ELSE IF status = "failed" THEN "failed"
    ELSE "full response"

\* one run of the script: argc is $#, keySet says whether the API key was
\* exported, resp is what curl printed
CheckJobStatus(argc, keySet, resp) ==
    /\ checkPc = "start"
    /\ checkPc' = "exited"
    /\ IF argc = 0 \/ ~keySet
       THEN /\ checkExit' = 1
            /\ checkBranch' = IF argc = 0 THEN "usage" ELSE "no api key"
            /\ UNCHANGED <<checkSTATUS, checkAUDIO_URL>>
       ELSE IF hasJq
       THEN LET status == CheckParseStatus(resp)
                url    == JqAudioUrl(resp)
            IN  /\ checkSTATUS' = status
                /\ checkBranch' = CheckBranch(status)
                /\ checkAUDIO_URL' =
                     IF status = "completed" /\ HasAudioUrl(url) THEN url
                     ELSE ""
                /\ checkExit' = 0
       ELSE /\ checkBranch' = "raw response"
            /\ checkExit' = 0
            /\ UNCHANGED <<checkSTATUS, checkAUDIO_URL>>
    /\ UNCHANGED <<hasJq, pollPc, ATTEMPT, STATUS, AUDIO_URL, ERROR_MESSAGE,
                   pollQueries, pollTerminal, pollDownloads, pollOutcome,
                   pollErrorShown, exitCode, serverVars, waitVars>>

(***************************************************************************)
(* CreoleCentricAPI.waitForJob.  Time is Date.now() in milliseconds.       *)
(***************************************************************************)
\* largest timeout argument, in seconds
MaxTimeout == 2

\* waitForJob calls made one after the other in one run
MaxCalls == 2

Timeouts == 0..MaxTimeout

PollIntervals == {1, 2}

\* how long one status request takes, and how late a timer may fire, in ms
Latencies == {0, 500, 1500}

TimerDelays == {0, 500}

\* the list of terminal statuses without 'cancelled'
IsTerminalNoCancelled(status) == status \in {"completed", "failed"}

\* every status but the two in-progress ones taken for terminal
IsTerminalUnlessInProgress(status) == status \notin {"pending", "processing"}

\* ['completed', 'failed', 'cancelled'].includes(status.status)
IsTerminal(status) == status \in {"completed", "failed", "cancelled"}

\* what a failed getJobStatus throws, after the response interceptor logged it
QueryErrors == {"HTTP error", "network error"}

TimeoutError == "did not complete within timeout seconds"

NoResult == [status |-> "<none>", audio_file_url |-> "<none>",
             audio_url |-> "<none>"]

\* main(): if (finalStatus.audio_url) console.log(`Audio URL: ...`); "" when
\* no such line is printed
MainAudioUrl(finalStatus) ==
    IF Truthy(finalStatus.audio_url) THEN finalStatus.audio_url ELSE ""

\* the request of getJobStatus taken for the one of cancelJob
getJobStatusAsCancel == [method |-> "POST", path |-> "/tts/jobs/{jobId}/cancel/"]

\* the request of getJobStatus
getJobStatus == [method |-> "GET", path |-> "/tts/jobs/{jobId}/status/"]

\* the call: startTime = Date.now()
WaitForJob(timeout, pollInterval) ==
    /\ wfPc = "idle"
    /\ wfPc' = "test"
    /\ startTime' = wfNow
    /\ timeoutMs' = timeout * 1000
    /\ pollIntervalMs' = pollInterval * 1000
    /\ wfEventsAtStart' = Len(webhookEvents)
    /\ UNCHANGED <<wfNow, wfPolls, wfQueries, wfResult, wfError, wfRequests,
                   wfEarlier, serverVars, pollVars>>

\* how a finished call ended
Outcome ==
    IF wfPc = "resolved" THEN "resolved"
    ELSE IF wfError = TimeoutError THEN "timeout" ELSE "error"

\* waitForJob called again after an earlier call has settled: the locals
\* are new, the client object holds nothing of the earlier call
WaitForJobAgain(timeout, pollInterval) ==
    /\ wfPc \in {"resolved", "rejected"}
    /\ Len(wfEarlier) + 1 < MaxCalls
    /\ wfEarlier' = Append(wfEarlier, Outcome)
    /\ wfPc' = "test"
    /\ startTime' = wfNow
    /\ timeoutMs' = timeout * 1000
    /\ pollIntervalMs' = pollInterval * 1000
    /\ wfPolls' = <<>>
    /\ wfQueries' = 0
    /\ wfResult' = NoResult
    /\ wfError' = ""
    /\ wfEventsAtStart' = Len(webhookEvents)
    /\ UNCHANGED <<wfNow, wfRequests, serverVars, pollVars>>

\* the loop condition tested with <= for <
LoopConditionInclusive == wfNow - startTime <= timeoutMs

\* Date.now() - startTime < timeoutMs
LoopCondition == wfNow - startTime < timeoutMs

\* while (Date.now() - startTime < timeoutMs): enter the body and send the
\* status query
WaitQuery ==
    /\ wfPc = "test"
    /\ LoopCondition
    /\ wfPc' = "querying"
    /\ wfQueries' = wfQueries + 1
    /\ wfRequests' = wfRequests \cup {getJobStatus}
    /\ UNCHANGED <<wfNow, startTime, timeoutMs, pollIntervalMs, wfPolls,
                   wfResult, wfError, wfEarlier, wfEventsAtStart,
                   serverVars, pollVars>>

\* the loop condition fails: throw the timeout error
WaitTimeout ==
    /\ wfPc = "test"
    /\ ~LoopCondition
    /\ wfPc' = "rejected"
    /\ wfError' = TimeoutError
    /\ UNCHANGED <<wfNow, startTime, timeoutMs, pollIntervalMs, wfPolls,
                   wfQueries, wfResult, wfRequests, wfEarlier,
                   wfEventsAtStart, serverVars, pollVars>>

\* getJobStatus resolved with response.data
WaitStatus(status, latency) ==
    /\ wfPc = "querying"
    /\ wfNow' = wfNow + latency
    /\ wfPolls' = Append(wfPolls, status)
    /\ IF IsTerminal(status.status)
       THEN /\ wfPc' = "resolved"
            /\ wfResult' = status
       ELSE /\ wfPc' = "sleeping"
            /\ UNCHANGED wfResult
    /\ UNCHANGED <<startTime, timeoutMs, pollIntervalMs, wfQueries, wfError,
                   wfRequests, wfEarlier, wfEventsAtStart, serverVars,
                   pollVars>>

\* getJobStatus rejected: the interceptor rethrows and nothing catches it
WaitQueryFailed(error, latency) ==
    /\ wfPc = "querying"
    /\ wfNow' = wfNow + latency
    /\ wfPc' = "rejected"
    /\ wfError' = error
    /\ UNCHANGED <<startTime, timeoutMs, pollIntervalMs, wfPolls, wfQueries,
                   wfResult, wfRequests, wfEarlier, wfEventsAtStart,
                   serverVars, pollVars>>

\* setTimeout(resolve, pollIntervalMs) fired
WaitSleep(delay) ==
    /\ wfPc = "sleeping"
    /\ wfNow' = wfNow + pollIntervalMs + delay
    /\ wfPc' = "test"
    /\ UNCHANGED <<startTime, timeoutMs, pollIntervalMs, wfPolls, wfQueries,
                   wfResult, wfError, wfRequests, wfEarlier, wfEventsAtStart,
                   serverVars, pollVars>>

(***************************************************************************)
(* Specifications                                                          *)
(***************************************************************************)
InitServer ==
    /\ webhookEvents = <<>>
    /\ responses = <<>>
    /\ handlerCalls = <<>>
    /\ downloads = <<>>
    /\ lastRead = NoRead

InitPoll ==
    /\ pollPc = "loop"
    /\ ATTEMPT = 0
    /\ STATUS = "pending"
    /\ AUDIO_URL = ""
    /\ ERROR_MESSAGE = ""
    /\ pollQueries = 0
    /\ pollTerminal = "none"
    /\ pollDownloads = 0
    /\ pollOutcome = ""
    /\ pollErrorShown = ""
    /\ exitCode = -1
    /\ checkPc = "start"
    /\ checkSTATUS = ""
    /\ checkBranch = "none"
    /\ checkAUDIO_URL = ""
    /\ checkExit = -1

InitWait ==
    /\ wfPc = "idle"
    /\ wfNow = 0
    /\ startTime = 0
    /\ timeoutMs = 0
    /\ pollIntervalMs = 0
    /\ wfPolls = <<>>
    /\ wfQueries = 0
    /\ wfResult = NoResult
    /\ wfError = ""
    /\ wfRequests = {}
    /\ wfEarlier = <<>>
    /\ wfEventsAtStart = 0

Init == InitServer /\ InitPoll /\ InitWait /\ hasJq = TRUE

InitScript == InitServer /\ InitPoll /\ InitWait /\ hasJq \in BOOLEAN

\* the webhook server
Next ==
    \/ \E data \in Payloads \cup {NoData} : Webhook(data)
    \/ \E i \in 1..Len(downloads) : DownloadResponse(i)
    \/ \E i \in 1..Len(downloads) : DownloadRequestFailed(i)
    \/ \E i \in 1..Len(downloads) : WriterFinish(i)
    \/ \E i \in 1..Len(downloads) : WriterError(i)

Spec == Init /\ [][Next]_vars

\* the webhook server with its GET endpoints, for webhooks of two event
\* types with and without a job id
ReadPayloads ==
    {p \in Payloads : /\ p.event \in {"tts_delivered", "tts_archived"}
                      /\ p.status = "completed"
                      /\ (p.event = "tts_archived" => p.audio_file_url = Undefined)}

\* the :jobId parameters read
ReadJobIds == {"J1", "unknown"}

NextRead ==
    \/ \E data \in ReadPayloads \cup {NoData} : Webhook(data)
    \/ GetEvents
    \/ \E jobId \in ReadJobIds : GetEventsByJob(jobId)
    \/ GetHealth
    \/ \E i \in 1..Len(downloads) : DownloadResponse(i)
    \/ \E i \in 1..Len(downloads) : DownloadRequestFailed(i)
    \/ \E i \in 1..Len(downloads) : WriterFinish(i)
    \/ \E i \in 1..Len(downloads) : WriterError(i)

SpecRead == Init /\ [][NextRead]_vars

\* the webhook server receiving webhooks of job J1 whose payloads carry
\* the three URL fields of the service
DeliveryPayloads ==
    {p \in [event : EventValues, job_id : {"J1"}, status : {"completed"},
            audio_file_url : UrlValues \cup {""},
            s3_url : {"s3://bucket/a.mp3", Undefined},
            audio_url : AudioUrlValues] :
        p.event # "tts_delivered" =>
            (p.s3_url = Undefined /\ p.audio_url = Undefined)}

NextDelivery ==
    \/ \E data \in DeliveryPayloads \cup {NoData} : Webhook(data)
    \/ \E i \in 1..Len(downloads) : DownloadResponse(i)
    \/ \E i \in 1..Len(downloads) : DownloadRequestFailed(i)
    \/ \E i \in 1..Len(downloads) : WriterFinish(i)
    \/ \E i \in 1..Len(downloads) : WriterError(i)

SpecDelivery == Init /\ [][NextDelivery]_vars

\* the webhook server receiving webhooks of two jobs and being read
JobIds == {"J1", "J2"}

JobPayloads ==
    [event : {"tts_queued", "tts_failed"}, job_id : JobIds,
     status : {"completed"}, audio_file_url : {Undefined}]

NextJobs ==
    \/ \E data \in JobPayloads \cup {NoData} : Webhook(data)
    \/ GetIndex
    \/ GetEvents
    \/ \E jobId \in JobIds : GetEventsByJob(jobId)
    \/ GetHealth

SpecJobs == Init /\ [][NextJobs]_vars

\* the webhook server receiving one job's webhooks in the order started,
\* queued, synthesized, started, delivered
ScenarioEvents == <<"tts_started", "tts_queued", "tts_synthesized",
                    "tts_started", "tts_delivered">>

ScenarioStatuses == <<"processing", "queued", "synthesized", "processing",
                      "completed">>

ScenarioPayloads(k) ==
    [event : {ScenarioEvents[k]}, job_id : {"J1"},
     status : {ScenarioStatuses[k], Undefined}, audio_file_url : UrlValues]

ScenarioWebhook(data) ==
    /\ Len(responses) < Len(ScenarioEvents)
    /\ data \in ScenarioPayloads(Len(responses) + 1)
    /\ Receive(data)

NextScenario ==
    \/ \E k \in 1..Len(ScenarioEvents) :
           \E data \in ScenarioPayloads(k) : ScenarioWebhook(data)
    \/ \E i \in 1..Len(downloads) : DownloadResponse(i)
    \/ \E i \in 1..Len(downloads) : DownloadRequestFailed(i)
    \/ \E i \in 1..Len(downloads) : WriterFinish(i)
    \/ \E i \in 1..Len(downloads) : WriterError(i)

SpecScenario == Init /\ [][NextScenario]_vars

\* the polling script
NextPoll ==
    \/ \E resp \in StatusResponses \cup {EmptyResponse} : PollAttempt(resp)
    \/ PollExhausted
    \/ PollFinish

SpecPoll == InitScript /\ [][NextPoll]_vars

\* the two shell scripts, each run on its own for the same job
Arguments == {0, 1}

NextScripts ==
    \/ \E resp \in StatusResponses \cup {EmptyResponse} : PollAttempt(resp)
    \/ PollExhausted
    \/ PollFinish
    \/ \E argc \in Arguments, keySet \in BOOLEAN,
          resp \in StatusResponses \cup {EmptyResponse} :
           CheckJobStatus(argc, keySet, resp)

SpecScripts == InitScript /\ [][NextScripts]_vars

\* the two pollers, waitForJob and the polling script, each polling the
\* status of the same job
PollerResponses ==
    {r \in StatusResponses : \/ r.status = "completed"
                             \/ /\ r.audio_file_url = Undefined
                                /\ r.audio_url = Undefined}

NextPollers ==
    \/ \E resp \in PollerResponses \cup {EmptyResponse} : PollAttempt(resp)
    \/ PollExhausted
    \/ PollFinish
    \/ WaitForJob(2, 1)
    \/ WaitQuery
    \/ WaitTimeout
    \/ \E s \in PollerResponses : WaitStatus(s, 0)
    \/ \E e \in QueryErrors : WaitQueryFailed(e, 0)
    \/ WaitSleep(0)

SpecPollers == InitScript /\ [][NextPollers]_vars

\* the polling script as the shell runs it: a script that can take a step
\* takes one (every curl returns)
SpecPollFair == InitScript /\ [][NextPoll]_vars /\ WF_vars(NextPoll)

\* waitForJob
NextWait ==
    \/ \E t \in Timeouts, p \in PollIntervals : WaitForJob(t, p)
    \/ WaitQuery
    \/ WaitTimeout
    \/ \E s \in StatusResponses, l \in Latencies : WaitStatus(s, l)
    \/ \E e \in QueryErrors, l \in Latencies : WaitQueryFailed(e, l)
    \/ \E d \in TimerDelays : WaitSleep(d)

SpecWait == Init /\ [][NextWait]_vars

\* waitForJob for a job that stays unfinished: every status query is
\* answered, after some latency, with a status that is not terminal; the
\* event loop runs every continuation that is ready
PendingTimeouts == Timeouts \cup {-1}

PendingResponses == {r \in StatusResponses : ~IsTerminal(r.status)}

NextWaitPending ==
    \/ \E t \in PendingTimeouts, p \in PollIntervals : WaitForJob(t, p)
    \/ WaitQuery
    \/ WaitTimeout
    \/ \E s \in PendingResponses, l \in Latencies : WaitStatus(s, l)
    \/ \E d \in TimerDelays : WaitSleep(d)

SpecWaitPending == Init /\ [][NextWaitPending]_vars /\ WF_vars(NextWaitPending)

\* waitForJob called for the same job again after a call has settled
AgainTimeouts == {0, 1}

AgainResponses == {r \in StatusResponses : r.audio_url = Undefined}

NextWaitAgain ==
    \/ \E t \in AgainTimeouts : WaitForJob(t, 1)
    \/ \E t \in AgainTimeouts : WaitForJobAgain(t, 1)
    \/ WaitQuery
    \/ WaitTimeout
    \/ \E s \in AgainResponses, l \in Latencies : WaitStatus(s, l)
    \/ \E e \in QueryErrors, l \in Latencies : WaitQueryFailed(e, l)
    \/ \E d \in TimerDelays : WaitSleep(d)

SpecWaitAgain == Init /\ [][NextWaitAgain]_vars

\* the polling script and the webhook server tracking the same job, J1: the
\* service sends the job's final webhook to the server while the script polls
ChannelPayloads ==
    {p \in Payloads : /\ p.job_id = "J1"
                      /\ p.event \in {"tts_delivered", "tts_failed"}
                      /\ p.status # Undefined}

NextChannels ==
    \/ \E resp \in StatusResponses \cup {EmptyResponse} : PollAttempt(resp)
    \/ PollExhausted
    \/ PollFinish
    \/ \E data \in ChannelPayloads : Webhook(data)
    \/ \E i \in 1..Len(downloads) : DownloadResponse(i)
    \/ \E i \in 1..Len(downloads) : DownloadRequestFailed(i)
    \/ \E i \in 1..Len(downloads) : WriterFinish(i)
    \/ \E i \in 1..Len(downloads) : WriterError(i)

SpecChannels == Init /\ [][NextChannels]_vars

\* a client waiting for job J1 with waitForJob while the webhook server
\* runs: the first wait times out, then the service posts the job's
\* tts_delivered webhook to the server, then the client waits again
DeliveredPayloads == {p \in ChannelPayloads : p.event = "tts_delivered"}

LaggingResponses ==
    {r \in AgainResponses : r.status \in {"processing", "completed"}}

\* the service posts the webhook once the client's wait has timed out
WebhookAfterTimeout(data) ==
    /\ wfPc = "rejected"
    /\ wfError = TimeoutError
    /\ Webhook(data)

NextWaitChannels ==
    \/ \E t \in AgainTimeouts : WaitForJob(t, 1)
    \/ \E t \in AgainTimeouts : WaitForJobAgain(t, 1)
    \/ WaitQuery
    \/ WaitTimeout
    \/ \E s \in LaggingResponses, l \in Latencies : WaitStatus(s, l)
    \/ \E d \in TimerDelays : WaitSleep(d)
    \/ \E data \in DeliveredPayloads : WebhookAfterTimeout(data)
    \/ \E i \in 1..Len(downloads) : DownloadResponse(i)
    \/ \E i \in 1..Len(downloads) : DownloadRequestFailed(i)
    \/ \E i \in 1..Len(downloads) : WriterFinish(i)
    \/ \E i \in 1..Len(downloads) : WriterError(i)

SpecWaitChannels == Init /\ [][NextWaitChannels]_vars

(***************************************************************************)
(* Properties                                                              *)
(***************************************************************************)
\* the downloads the server started for job j
ServerDownloads(j) == {k \in 1..Len(downloads) : downloads[k].jobId = j}

\* a tts_delivered webhook that carries an audio_file_url
IsDeliveredWithUrl(d) == d.event = "tts_delivered" /\ Truthy(d.audio_file_url)

\* a stored event arrived in this step
EventArrived == Len(webhookEvents') = Len(webhookEvents) + 1

\* C1: when one tts_delivered webhook carrying an audio_file_url has been
\* delivered N >= 1 times (and nothing else), exactly one download has been
\* started for its job.
C1_OneDownloadPerDelivered ==
    \A d \in Payloads :
        ( /\ IsDeliveredWithUrl(d)
          /\ Len(webhookEvents) >= 1
          /\ \A i \in 1..Len(webhookEvents) : webhookEvents[i] = d )
        => Cardinality(ServerDownloads(d.job_id)) = 1

\* C2: when a poll of the script has returned completed with an audio URL
\* and the server has received tts_delivered with audio_file_url for the same
\* job, the two channels together have started at most one download.
C2_AtMostOneDownloadAcrossChannels ==
    ( /\ pollTerminal = "completed"
      /\ HasAudioUrl(AUDIO_URL)
      /\ \E i \in 1..Len(webhookEvents) :
            /\ IsDeliveredWithUrl(webhookEvents[i])
            /\ webhookEvents[i].job_id = "J1" )
    => pollDownloads + Cardinality(ServerDownloads("J1")) <= 1

\* C3: a tts_delivered webhook that arrives after a tts_failed webhook of
\* the same job starts no download.
C3_DeliveredAfterFailedDiscarded ==
    [][ ( /\ EventArrived
          /\ Last(webhookEvents').event = "tts_delivered"
          /\ \E i \in 1..Len(webhookEvents) :
                /\ webhookEvents[i].event = "tts_failed"
                /\ webhookEvents[i].job_id = Last(webhookEvents').job_id )
        => downloads' = downloads ]_vars

\* C4: the script ends with the timeout outcome only if no query returned a
\* terminal status, and ends with the success outcome and exit status 0
\* whenever a query returned completed.
C4_TimeoutOnlyWithoutTerminal ==
    pollPc = "exited" =>
        /\ pollOutcome = "Timeout: Job did not complete within expected time"
              => pollTerminal = "none"
        /\ pollTerminal = "completed"
              => /\ pollOutcome = "Example completed successfully!"
                 /\ exitCode = 0

\* C5: waitForJob rejects with the timeout error only; a failed status
\* query never makes it reject.
C5_OnlyTimeoutRejects ==
    wfPc = "rejected" => wfError = TimeoutError

\* C6: waitForJob resolves with the status object of the first poll whose
\* status is completed, failed or cancelled: the poll that returns such a
\* status is the last one and resolves the call, no poll before it returned
\* one, and every query sent has been answered by then.
C6_ResolvesWithFirstTerminal ==
    /\ wfPc = "resolved" =>
          /\ Len(wfPolls) >= 1
          /\ wfResult = Last(wfPolls)
          /\ wfResult.status \in TerminalStatuses
          /\ wfQueries = Len(wfPolls)
    /\ \A i \in 1..Len(wfPolls) :
          wfPolls[i].status \in TerminalStatuses
              => i = Len(wfPolls) /\ wfPc = "resolved"

\* C6 witness: a call resolved with a failed status at its second poll
C6_Witness ==
    /\ wfPc = "resolved"
    /\ wfResult.status = "failed"
    /\ Len(wfPolls) = 2

\* C7: the response to a tts_delivered webhook is the 200 success, it is
\* sent while the download the webhook started is still waiting for its
\* first byte, and no later step of a download changes a response sent.
C7_ResponseIndependentOfDownload ==
    [][ /\ SubSeq(responses', 1, Len(responses)) = responses
        /\ ( /\ EventArrived
             /\ Last(webhookEvents').event = "tts_delivered" )
           => /\ Len(responses') = Len(responses) + 1
              /\ Last(responses').code = 200
              /\ Last(responses').status = "success"
              /\ \A k \in Len(downloads) + 1 .. Len(downloads') :
                    downloads'[k].state = "requesting" ]_vars

\* C7 witness: two tts_delivered webhooks answered 200 whose downloads
\* ended differently, one saved and one failed
C7_Witness ==
    /\ Len(responses) = 2
    /\ \A i \in 1..2 : responses[i].code = 200 /\ responses[i].event = "tts_delivered"
    /\ Len(downloads) = 2
    /\ downloads[1].state = "failed"
    /\ downloads[2].state = "saved"

\* C8: no stored event and no handler call comes from a body that lacks
\* event, job_id or status.
C8_MalformedNeverStored ==
    \A i \in 1..Len(webhookEvents) :
        /\ Truthy(webhookEvents[i].event)
        /\ Truthy(webhookEvents[i].job_id)
        /\ Truthy(webhookEvents[i].status)

\* C9: a webhook whose event is absent or not one of the six types is
\* answered 200 success, calls no handler and starts no download; and the
\* events of the six types stored so far, also those behind it, each got
\* their handler call.
C9_UnknownEventAcknowledged ==
    [][ /\ ( /\ EventArrived
             /\ Last(webhookEvents').event \notin EventTypes )
           => /\ Len(responses') = Len(responses) + 1
              /\ Last(responses').code = 200
              /\ Last(responses').status = "success"
              /\ handlerCalls' = handlerCalls
              /\ downloads' = downloads
        /\ \A i \in 1..Len(webhookEvents') :
              webhookEvents'[i].event \in EventTypes
                 => \E c \in 1..Len(handlerCalls') : handlerCalls'[c].at = i ]_vars

\* C9 witness: an unknown event, then a tts_delivered that started a download
C9_Witness ==
    /\ Len(webhookEvents) = 2
    /\ webhookEvents[1].event = "tts_archived"
    /\ webhookEvents[2].event = "tts_delivered"
    /\ Len(handlerCalls) = 1
    /\ handlerCalls[1].at = 2
    /\ Len(downloads) = 1
    /\ responses[1].code = 200

\* C10: a download that ended in failure was retried: more than one request
\* was made for it.
C10_FailedDownloadRetried ==
    \A k \in 1..Len(downloads) :
        downloads[k].state \in {"failed", "save_error"}
            => downloads[k].requests >= 2

\* the rank of an event in the order Queued < Processing < Synthesized <
\* Uploaded < Completed; tts_failed has none
EventRank(eventType) ==
    CASE eventType = "tts_queued"      -> 0
      [] eventType = "tts_started"     -> 1
      [] eventType = "tts_synthesized" -> 2
      [] eventType = "tts_uploaded"    -> 3
      [] eventType = "tts_delivered"   -> 4
      [] OTHER                         -> -1

\* C11: the events a handler was called for never regress in rank within
\* one job: no handler call for an event follows a handler call for an event
\* of higher rank of the same job.
C11_HandledRankNeverRegresses ==
    \A a, b \in 1..Len(handlerCalls) :
        ( /\ a < b
          /\ handlerCalls[a].job_id = handlerCalls[b].job_id
          /\ EventRank(webhookEvents[handlerCalls[a].at].event) >= 0
          /\ EventRank(webhookEvents[handlerCalls[b].at].event) >= 0 )
        => EventRank(webhookEvents[handlerCalls[a].at].event)
              <= EventRank(webhookEvents[handlerCalls[b].at].event)

\* C12: the polling loop terminates, with one status query per attempt, at
\* most MAX_ATTEMPTS of them, and none after the first response whose status
\* is completed, failed or cancelled.
C12_PollingTerminates ==
    /\ <>(pollPc = "exited")
    /\ [](pollQueries = ATTEMPT /\ pollQueries <= MAX_ATTEMPTS)
    /\ [][pollTerminal # "none" => pollQueries' = pollQueries]_vars

\* C12 witness: the script has exited after a query that answered cancelled
C12_Witness ==
    /\ pollPc = "exited"
    /\ pollTerminal = "cancelled"
    /\ pollQueries = 3

\* the status responses that carry no status: a failed curl, a body that is
\* not JSON, or JSON without a status field
NoStatusResponses ==
    {EmptyResponse} \cup {r \in StatusResponses : r.status = Undefined}

\* C13: a status query that fails or returns an empty or unparseable
\* response uses up exactly one attempt, downloads nothing, and leaves the
\* script in its loop without an exit status; and the script leaves the loop
\* before its last attempt only on a terminal status.
C13_FailedQuerySkipsAttempt ==
    [][ /\ \A resp \in NoStatusResponses :
              PollAttempt(resp)
                  => /\ ATTEMPT' = ATTEMPT + 1
                     /\ pollPc' = "loop"
                     /\ exitCode' = -1
                     /\ pollOutcome' = ""
                     /\ pollDownloads' = pollDownloads
        /\ (pollPc = "loop" /\ pollPc' # "loop" /\ ATTEMPT' < MAX_ATTEMPTS)
              => STATUS' \in TerminalStatuses ]_vars

\* C13 witness: three queries without a status in a row, the script still
\* polling
C13_Witness ==
    /\ pollPc = "loop"
    /\ ATTEMPT = 3
    /\ pollQueries = 3
    /\ STATUS = ""
    /\ pollTerminal = "none"

\* C14: waitForJob resolves only with a status that was received before the
\* timeout had elapsed.
C14_NoResolveAfterTimeout ==
    wfPc = "resolved" => wfNow - startTime < timeoutMs

\* C15: when every status query is answered in finite time with a
\* non-terminal status, waitForJob eventually rejects with the timeout
\* error; a status query is started only while the elapsed time is below the
\* timeout, and none is started when the timeout is <= 0.
C15_PendingJobTimesOut ==
    /\ <>(wfPc = "rejected" /\ wfError = TimeoutError)
    /\ [][wfQueries' > wfQueries => wfNow - startTime < timeoutMs]_vars
    /\ [](timeoutMs <= 0 => wfQueries = 0)

C15_Witness ==
    /\ wfPc = "rejected"
    /\ wfError = TimeoutError
    /\ wfQueries = 2
    /\ Len(wfPolls) = 2
    /\ \A i \in 1..Len(wfPolls) : ~IsTerminal(wfPolls[i].status)

\* C16: waitForJob sends nothing but status GET queries, and a call starts
\* from nothing of the calls before it: also after a call that failed with
\* the timeout error, the first poll that observes a terminal status is the
\* last poll of the call and the call resolves with that status.
C16_OnlyStatusQueriesNoCarriedState ==
    /\ \A r \in wfRequests : r.method = "GET" /\ r.path = "/tts/jobs/{jobId}/status/"
    /\ Len(wfPolls) <= wfQueries
    /\ (wfPc = "test" /\ wfQueries = 0) => (startTime = wfNow /\ wfPolls = <<>>)
    /\ \A i \in 1..Len(wfPolls) :
           wfPolls[i].status \in {"completed", "failed", "cancelled"} =>
               /\ i = Len(wfPolls)
               /\ wfPc = "resolved"
               /\ wfResult = wfPolls[i]

C16_Witness ==
    /\ wfEarlier = <<"timeout">>
    /\ wfPc = "resolved"
    /\ Len(wfPolls) = 1
    /\ wfResult.status = "completed"
    /\ wfRequests = {getJobStatus}

\* C17: a failed or cancelled job gets no download and its error is shown:
\* the polling step that reads status failed or cancelled exits with status
\* 1, starts no download and prints the error_message it parsed when there
\* is one; the server's handling of a tts_failed webhook starts no download.
C17_NoDownloadOnFailedOrCancelled ==
    [][ /\ \A data \in ChannelPayloads :
               (data.event = "tts_failed" /\ Webhook(data)) =>
                   downloads' = downloads
        /\ (pollPc = "loop" /\ pollPc' = "exited") =>
               /\ STATUS' \in {"failed", "cancelled"}
               /\ exitCode' = 1
               /\ pollDownloads' = pollDownloads
               /\ (ERROR_MESSAGE' \notin {"", "null"} =>
                       pollErrorShown' = ERROR_MESSAGE') ]_vars

\* C18: when a wait for job J1 has ended with the timeout error and the
\* server has then received the tts_delivered webhook of J1, a wait for J1
\* begun after that (with a positive timeout) ends resolved with completed.
C18_WaitResolvesAfterDeliveredWebhook ==
    ( /\ wfEarlier # <<>>
      /\ Last(wfEarlier) = "timeout"
      /\ \E k \in 1..wfEventsAtStart :
             /\ webhookEvents[k].event = "tts_delivered"
             /\ webhookEvents[k].job_id = "J1"
      /\ timeoutMs > 0
      /\ wfPc \in {"resolved", "rejected"} )
    => (wfPc = "resolved" /\ wfResult.status = "completed")

\* the number of webhooks the server accepted (answered with 200)
Accepted == Cardinality({i \in 1..Len(responses) : responses[i].code = 200})

\* C19: webhookEvents is an append-only history in arrival order: a POST
\* /webhook with a JSON body appends that body as the one new last entry,
\* whether or not its job id or an equal event is stored already and
\* whatever its event type; every other step leaves the history as it is;
\* GET /health answers with the number of webhooks accepted so far.
C19_HistoryAppendOnly ==
    /\ [](Len(webhookEvents) = Accepted)
    /\ [][ /\ \A data \in ReadPayloads :
                  Webhook(data) => webhookEvents' = Append(webhookEvents, data)
           /\ \/ webhookEvents' = webhookEvents
              \/ \E data \in ReadPayloads :
                     webhookEvents' = Append(webhookEvents, data)
           /\ GetHealth => lastRead'.events_received = Accepted ]_vars

C19_Witness ==
    /\ Len(webhookEvents) = 2
    /\ webhookEvents[1] = webhookEvents[2]
    /\ webhookEvents[1].event = "tts_archived"
    /\ webhookEvents[1].job_id = Undefined
    /\ lastRead.endpoint = "/health"
    /\ lastRead.events_received = 2

\* C20: after the five webhooks started, queued, synthesized, started,
\* delivered of one job (the last with status completed and a URL) the
\* history holds the five events in arrival order, the job's last handled
\* event is the delivery, exactly one download was started, and the two
\* out-of-rank events (the 2nd and the 4th) were stored without being
\* handled as changes of the job's state.
C20_OutOfRankRecordedNotApplied ==
    ( /\ Len(webhookEvents) = Len(ScenarioEvents)
      /\ \A k \in 1..Len(ScenarioEvents) :
             /\ webhookEvents[k].event = ScenarioEvents[k]
             /\ webhookEvents[k].job_id = "J1"
      /\ webhookEvents[5].status = "completed"
      /\ Truthy(webhookEvents[5].audio_file_url) )
    => /\ Cardinality(ServerDownloads("J1")) = 1
       /\ handlerCalls # <<>>
       /\ Last(handlerCalls).handler = "handleDelivered"
       /\ \A c \in 1..Len(handlerCalls) : handlerCalls[c].at \notin {2, 4}

\* C21: the shell scripts classify the five status strings by one table:
\* completed is success, failed is failure, cancelled is cancellation,
\* pending and processing are in progress.  The polling script leaves its
\* loop on the three terminal strings with the matching message and stays in
\* it on the other two; check_job_status.sh takes the branch of the same
\* class.
C21_SameClassification ==
    /\ STATUS = "completed" => pollPc # "loop"
    /\ STATUS = "failed" => (pollPc = "exited" /\ pollOutcome = "Job failed!")
    /\ STATUS = "cancelled" =>
           (pollPc = "exited" /\ pollOutcome = "Job was cancelled")
    /\ (STATUS \in {"pending", "processing"} /\ ATTEMPT < MAX_ATTEMPTS) =>
           pollPc = "loop"
    /\ checkSTATUS = "completed" => checkBranch = "completed"
    /\ checkSTATUS = "failed" => checkBranch = "failed"
    /\ checkSTATUS = "cancelled" => checkBranch = "cancelled"
    /\ checkSTATUS \in {"pending", "processing"} => checkBranch = "in progress"

\* the status responses whose status is none of completed, failed, cancelled
NonTerminalResponses ==
    {r \in PollerResponses : r.status \notin {"completed", "failed", "cancelled"}}

\* C22: a status other than completed, failed or cancelled (also a missing
\* one) never ends polling: waitForJob that receives it neither resolves
\* nor rejects but goes to sleep before its next loop test, and the polling
\* script that receives it stays in its loop without exit or download.
C22_UnrecognizedStatusKeepsPolling ==
    [][ /\ \A s \in NonTerminalResponses :
               WaitStatus(s, 0) =>
                   /\ wfPc' = "sleeping"
                   /\ wfResult' = wfResult
                   /\ wfError' = wfError
        /\ \A resp \in NonTerminalResponses :
               PollAttempt(resp) =>
                   /\ pollPc' = "loop"
                   /\ exitCode' = exitCode
                   /\ pollOutcome' = pollOutcome
                   /\ pollDownloads' = pollDownloads ]_vars

C22_Witness ==
    /\ wfPc = "querying"
    /\ wfQueries = 2
    /\ Len(wfPolls) = 1
    /\ wfPolls[1].status = "synthesized"
    /\ pollPc = "loop"
    /\ pollQueries = 2
    /\ STATUS = "null"
    /\ exitCode = -1

\* the handler each of the six event values is expected to reach
ExpectedHandler ==
    [e \in EventTypes |->
        CASE e = "tts_queued"      -> "handleQueued"
          [] e = "tts_started"     -> "handleStarted"
          [] e = "tts_synthesized" -> "handleSynthesized"
          [] e = "tts_uploaded"    -> "handleUploaded"
          [] e = "tts_delivered"   -> "handleDelivered"
          [] e = "tts_failed"      -> "handleFailed"]

\* the handler calls made for the i-th stored event
CallsFor(i) == {c \in 1..Len(handlerCalls) : handlerCalls[c].at = i}

\* C23: each stored event of one of the six event values got exactly one
\* handler call, of the handler that belongs to its event value, whatever
\* its status and whatever was stored before; every other stored event got
\* no handler call.
C23_OneHandlerPerEventValue ==
    \A i \in 1..Len(webhookEvents) :
        IF webhookEvents[i].event \in EventTypes
        THEN /\ Cardinality(CallsFor(i)) = 1
             /\ \A c \in CallsFor(i) :
                    handlerCalls[c].handler =
                        ExpectedHandler[webhookEvents[i].event]
        ELSE CallsFor(i) = {}

C23_Witness ==
    /\ Len(webhookEvents) = 2
    /\ webhookEvents[1].event = "tts_started"
    /\ webhookEvents[2].event = "tts_started"
    /\ webhookEvents[1].status # webhookEvents[2].status
    /\ Len(handlerCalls) = 2
    /\ handlerCalls[1].handler = "handleStarted"
    /\ handlerCalls[2].handler = "handleStarted"

\* the artifact URL of a status response: audio_file_url, else audio_url
ArtifactUrl(resp) ==
    IF resp.audio_file_url # Undefined THEN resp.audio_file_url
    ELSE IF resp.audio_url # Undefined THEN resp.audio_url
    ELSE ""

\* the completed status responses that carry an artifact URL
CompletedWithUrl ==
    {r \in PollerResponses : r.status = "completed" /\ ArtifactUrl(r) # ""}

\* C24: a completed status response that carries its artifact URL in
\* audio_file_url or audio_url gives that URL to its consumer,
\* audio_file_url first: the polling script, with or without jq, downloads
\* it, and main() prints it for the status waitForJob resolved with.
C24_ConsumerObtainsArtifactUrl ==
    [][ \A resp \in CompletedWithUrl :
            /\ PollAttempt(resp) =>
                   /\ AUDIO_URL' = ArtifactUrl(resp)
                   /\ pollDownloads' = pollDownloads + 1
            /\ WaitStatus(resp, 0) =>
                   /\ wfPc' = "resolved"
                   /\ MainAudioUrl(wfResult') = ArtifactUrl(resp) ]_vars

\* C25: POST /webhook starts a download exactly when the event is
\* tts_delivered and audio_file_url is present and not empty, and then one
\* download of that URL for the payload's job; the other five events, unknown
\* events, a body-less request and a tts_delivered that carries only s3_url
\* or audio_url start none.
C25_DownloadIffDeliveredWithFileUrl ==
    [][ IF EventArrived
        THEN LET d == Last(webhookEvents')
             IN  IF /\ d.event = "tts_delivered"
                    /\ d.audio_file_url \notin {Undefined, ""}
                 THEN /\ Len(downloads') = Len(downloads) + 1
                      /\ SubSeq(downloads', 1, Len(downloads)) = downloads
                      /\ Last(downloads').url = d.audio_file_url
                      /\ Last(downloads').jobId = d.job_id
                 ELSE downloads' = downloads
        ELSE Len(downloads') = Len(downloads) ]_vars

C25_Witness ==
    /\ Len(webhookEvents) = 2
    /\ webhookEvents[1].event = "tts_delivered"
    /\ webhookEvents[1].audio_file_url = Undefined
    /\ webhookEvents[1].s3_url # Undefined
    /\ webhookEvents[1].audio_url # Undefined
    /\ webhookEvents[2].event = "tts_delivered"
    /\ webhookEvents[2].audio_file_url = "https://x/a.mp3"
    /\ Len(downloads) = 1
    /\ downloads[1].url = "https://x/a.mp3"

\* C26: no two downloads of the server have their write streams open on the
\* file of the same job at the same time.
C26_OneWriterPerFile ==
    \A a, b \in 1..Len(downloads) :
        ( /\ a # b
          /\ downloads[a].jobId = downloads[b].jobId
          /\ downloads[a].state = "streaming" )
        => downloads[b].state # "streaming"

\* the stored event of the webhook that got the k-th response, a 200
AckedEvent(k) ==
    webhookEvents[Cardinality({i \in 1..k : responses[i].code = 200})]

\* C27: GET /events/J returns every webhook that was acknowledged with
\* job_id J in its response body.
C27_AcknowledgedJobIdIsReadable ==
    [][ \A jobId \in ReadJobIds :
            GetEventsByJob(jobId) =>
                \A k \in 1..Len(responses) :
                    (responses[k].code = 200 /\ responses[k].job_id = jobId)
                        => \E i \in 1..Len(lastRead'.body) :
                               lastRead'.body[i] = AckedEvent(k) ]_vars

\* the events of job jobId among events, in their order
RECURSIVE EventsOfJob(_, _)
EventsOfJob(events, jobId) ==
    IF events = <<>> THEN <<>>
    ELSE LET rest == EventsOfJob(SubSeq(events, 1, Len(events) - 1), jobId)
         IN  IF Last(events).job_id = jobId THEN Append(rest, Last(events))
             ELSE rest

\* C28: GET /, GET /events, GET /events/:jobId and GET /health leave the
\* stored events as they are; GET /events/:jobId answers with exactly the
\* stored events of that job id in arrival order; a webhook of one job
\* leaves the events of every other job, and so what GET /events/<other job>
\* answers, as they were.
C28_ReadsAreFramed ==
    [][ /\ (GetIndex \/ GetEvents \/ GetHealth
              \/ \E jobId \in JobIds : GetEventsByJob(jobId))
           => webhookEvents' = webhookEvents
        /\ \A jobId \in JobIds :
               GetEventsByJob(jobId) =>
                   lastRead'.body = EventsOfJob(webhookEvents, jobId)
        /\ \A data \in JobPayloads, other \in JobIds :
               (Webhook(data) /\ data.job_id # other) =>
                   EventsOfJob(webhookEvents', other)
                       = EventsOfJob(webhookEvents, other) ]_vars

C28_Witness ==
    /\ Len(webhookEvents) = 2
    /\ webhookEvents[1].job_id = "J1"
    /\ webhookEvents[2].job_id = "J2"
    /\ lastRead.endpoint = "/events/:jobId"
    /\ lastRead.body = <<webhookEvents[1]>>

====
